---- MODULE Spec2Model ----
(***************************************************************************)
(* Model of the lighting engine of web_dmx.py: frame builder, global       *)
(* dimmer, transmission gate (send_dmx), sequence runner (run_sequence),   *)
(* animation control (stop_animation) and the request handlers that drive  *)
(* them, as concurrently running threads.                                  *)
(***************************************************************************)
EXTENDS Integers, Sequences, FiniteSets, TLC

\* ------------------------------------------------------------------------
\* Bounds of the model (not program constants)
\* ------------------------------------------------------------------------
\* number of HTTP requests issued during one lifetime of the process; every
\* request runs in its own thread and may spawn one runner and one stopper
MaxRequests == 2

\* ------------------------------------------------------------------------
\* Small helpers
\* ------------------------------------------------------------------------
Max(a, b) == IF a >= b THEN a ELSE b
Min(a, b) == IF a <= b THEN a ELSE b

\* dict.get(k, default)
Get(d, k, default) == IF k \in DOMAIN d THEN d[k] ELSE default

\* the empty dict {}
EmptyDict == [k \in {} |-> 0]

\* {**a, **b}: b wins
Merge(a, b) == [k \in (DOMAIN a) \cup (DOMAIN b) |-> IF k \in DOMAIN b THEN b[k] ELSE a[k]]

\* [0]*n
Zeros(n) == [k \in 1..n |-> 0]

\* None for CURRENT_FRAME / CURRENT_BASE_FRAME
NoFrame == <<-1>>

\* str.upper() on the role / mode tokens that occur in configurations
Upper(s) ==
  CASE s = "r" -> "R" [] s = "g" -> "G" [] s = "b" -> "B" [] s = "w" -> "W"
    [] s = "a" -> "A" [] s = "dim" -> "DIM" [] s = "strobe" -> "STROBE"
    [] s = "rgb" -> "RGB" [] s = "rgbw" -> "RGBW" [] s = "rgbwa" -> "RGBWA"
    [] OTHER -> s

\* str.lower() on scene type tokens
Lower(s) ==
  CASE s = "Static" -> "static" [] s = "STATIC" -> "static"
    [] s = "Blackout" -> "blackout" [] s = "BLACKOUT" -> "blackout"
    [] s = "Sequence" -> "sequence" [] s = "SEQUENCE" -> "sequence"
    [] s = "Per-Fixture" -> "per-fixture" [] s = "PER-FIXTURE" -> "per-fixture"
    [] OTHER -> s

\* [x.upper() for x in (f.get("map") or [])]
UpperMap(f) == LET m == Get(f, "map", <<>>) IN [k \in 1..Len(m) |-> Upper(m[k])]

\* position (1-based) of the first occurrence of role in m, 0 if absent
RECURSIVE IndexFrom(_, _, _)
IndexFrom(m, role, k) ==
  IF k > Len(m) THEN 0
  ELSE IF m[k] = role THEN k ELSE IndexFrom(m, role, k + 1)

\* ------------------------------------------------------------------------
\* Global dimmer: pure part
\* ------------------------------------------------------------------------
\* a clamp that forgets the lower bound
ClampPercentUpperOnly(pct) == Min(100, pct)

\* max(0, min(100, int(pct)))
ClampPercent(pct) == Max(0, Min(100, pct))

\* _load_dimmer_from_disk: the file content is NoFile or the stored level
NoFile == -1000
LoadDimmer(file) == IF file = NoFile THEN 100 ELSE file

\* _fixture_span
FixtureSpan(f) ==
  IF Len(Get(f, "map", <<>>)) > 0 THEN Len(f.map)
  ELSE IF Upper(Get(f, "mode", "RGBW")) = "RGBW" THEN 4 ELSE 3

\* (v, pct) for which v * (pct / 100.0) is an exact tie x.5 in the rationals but
\* the IEEE double product falls on the other side than round-half-even picks
FloatTieOdd ==
  { <<150, 7>>, <<75, 14>>, <<175, 14>>, <<90, 35>>, <<170, 35>>, <<150, 41>>,
    <<110, 55>>, <<190, 55>>, <<230, 55>>, <<150, 57>>, <<150, 69>>, <<45, 70>>,
    <<85, 70>>, <<165, 70>>, <<75, 82>> }

\* int(round(v * factor)) with factor = pct / 100.0 (Python 3 round: half to even)
ScaleRound(v, pct) ==
  LET n == v * pct
      q == n \div 100
      r == n % 100
  IN IF r > 50 THEN q + 1
     ELSE IF r < 50 THEN q
     ELSE IF <<v, pct>> \in FloatTieOdd
          THEN (IF q % 2 = 0 THEN q + 1 ELSE q)
          ELSE (IF q % 2 = 0 THEN q ELSE q + 1)

\* one iteration of the loop over fixtures in _apply_global_dimmer
DimFixture(out, f, pct) ==
  LET start == f.start_channel - 1
      span  == FixtureSpan(f)
      m     == UpperMap(f)
      d     == IndexFrom(m, "DIM", 1)
      offs  == IF span >= 4 THEN {0, 1, 2, 3} ELSE {0, 1, 2}
  IN IF d > 0
     THEN LET ch == start + (d - 1)
          IN IF 0 <= ch /\ ch < Len(out)
             THEN [out EXCEPT ![ch + 1] = ScaleRound(255, pct)]
             ELSE out
     ELSE [k \in 1..Len(out) |->
             IF (k - 1) - start \in offs THEN ScaleRound(out[k], pct) ELSE out[k]]

RECURSIVE DimFrom(_, _, _, _)
DimFrom(out, fixtures, pct, k) ==
  IF k > Len(fixtures) THEN out
  ELSE DimFrom(DimFixture(out, fixtures[k], pct), fixtures, pct, k + 1)

\* the dimmer without its shortcut for 100%
ApplyGlobalDimmerAlways(frame, fixtures, pct) == DimFrom(frame, fixtures, pct, 1)

\* _apply_global_dimmer with the level pct it read through get_global_dimmer
ApplyGlobalDimmer(frame, fixtures, pct) ==
  IF pct = 100 THEN frame ELSE DimFrom(frame, fixtures, pct, 1)

\* ------------------------------------------------------------------------
\* Frame utilities
\* ------------------------------------------------------------------------
RECURSIVE FrameLenFrom(_, _, _)
FrameLenFrom(fixtures, k, end) ==
  IF k > Len(fixtures) THEN end
  ELSE FrameLenFrom(fixtures, k + 1,
                    Max(end, fixtures[k].start_channel + FixtureSpan(fixtures[k]) - 1))

frame_len(fixtures) == FrameLenFrom(fixtures, 1, 0)

ensure_len(buf, n) ==
  IF buf = NoFrame THEN Zeros(n)
  ELSE IF Len(buf) < n THEN buf \o Zeros(n - Len(buf))
  ELSE IF Len(buf) > n THEN SubSeq(buf, 1, n)
  ELSE buf

\* ------------------------------------------------------------------------
\* Frame builder
\* ------------------------------------------------------------------------
Clamp255(v) == Max(0, Min(255, v))

\* value written at offset idx (0-based) of a mapped fixture, -1: no write
RoleValue(role, r, g, b, w, dim, stro) ==
  CASE role = "DIM" -> Clamp255(dim)
    [] role = "R" -> Clamp255(r)
    [] role = "G" -> Clamp255(g)
    [] role = "B" -> Clamp255(b)
    [] role = "W" -> Clamp255(w)
    [] role = "STROBE" -> Clamp255(stro)
    [] OTHER -> -1

_apply_fixture(buf, f, color, attrs, root_defaults) ==
  LET start == f.start_channel - 1
      m     == UpperMap(f)
      dim   == Get(attrs, "dimmer", Get(root_defaults, "dimmer", 255))
      stro  == Get(attrs, "strobe", Get(root_defaults, "strobe", 0))
      r == Get(color, "r", 0)
      g == Get(color, "g", 0)
      b == Get(color, "b", 0)
      w == Get(color, "w", 0)
      isRGBW == Upper(Get(f, "mode", "RGBW")) = "RGBW"
  IN IF Len(m) = 0
     THEN [k \in 1..Len(buf) |->
             CASE k - 1 = start + 0 -> r
               [] k - 1 = start + 1 -> g
               [] k - 1 = start + 2 -> b
               [] k - 1 = start + 3 /\ isRGBW -> w
               [] OTHER -> buf[k]]
     ELSE [k \in 1..Len(buf) |->
             LET idx == (k - 1) - start
             IN IF idx >= 0 /\ idx < Len(m)
                   /\ RoleValue(m[idx + 1], r, g, b, w, dim, stro) >= 0
                THEN RoleValue(m[idx + 1], r, g, b, w, dim, stro)
                ELSE buf[k]]

RECURSIVE BuildStatic(_, _, _, _, _, _, _)
BuildStatic(dmx, fixtures, allc, gattrs, pfattrs, root_defaults, k) ==
  IF k > Len(fixtures) THEN dmx
  ELSE BuildStatic(
         _apply_fixture(dmx, fixtures[k], allc,
                        Merge(gattrs, Get(pfattrs, fixtures[k].name, EmptyDict)),
                        root_defaults),
         fixtures, allc, gattrs, pfattrs, root_defaults, k + 1)

RECURSIVE BuildPerFixture(_, _, _, _, _, _, _)
BuildPerFixture(dmx, fixtures, vals, gattrs, pfattrs, root_defaults, k) ==
  IF k > Len(fixtures) THEN dmx
  ELSE BuildPerFixture(
         _apply_fixture(dmx, fixtures[k], Get(vals, fixtures[k].name, EmptyDict),
                        Merge(gattrs, Get(pfattrs, fixtures[k].name, EmptyDict)),
                        root_defaults),
         fixtures, vals, gattrs, pfattrs, root_defaults, k + 1)

\* (scene.get("type") or "static").lower()
SceneTypeOrStatic(scene) ==
  LET t == Get(scene, "type", "") IN IF t = "" THEN "static" ELSE Lower(t)

\* (scene.get("type") or "").lower()
SceneType(scene) == Lower(Get(scene, "type", ""))

\* a builder that takes every type it does not know for static
build_dmx_frame_lenient(fixtures, scene, root_defaults) ==
  LET dmx     == Zeros(frame_len(fixtures))
      t       == SceneTypeOrStatic(scene)
      gattrs  == Get(scene, "attrs", EmptyDict)
      pfattrs == Get(scene, "per_fixture_attrs", EmptyDict)
  IN CASE t = "blackout" -> dmx
       [] t = "per-fixture" ->
            BuildPerFixture(dmx, fixtures, Get(scene, "values", EmptyDict),
                            gattrs, pfattrs, root_defaults, 1)
       [] OTHER ->
            BuildStatic(dmx, fixtures, Get(scene, "all", EmptyDict),
                        gattrs, pfattrs, root_defaults, 1)

build_dmx_frame(fixtures, scene, root_defaults) ==
  LET dmx     == Zeros(frame_len(fixtures))
      t       == SceneTypeOrStatic(scene)
      gattrs  == Get(scene, "attrs", EmptyDict)
      pfattrs == Get(scene, "per_fixture_attrs", EmptyDict)
  IN CASE t = "blackout" -> dmx
       [] t = "static" ->
            BuildStatic(dmx, fixtures, Get(scene, "all", EmptyDict),
                        gattrs, pfattrs, root_defaults, 1)
       [] t = "per-fixture" ->
            BuildPerFixture(dmx, fixtures, Get(scene, "values", EmptyDict),
                            gattrs, pfattrs, root_defaults, 1)
       [] OTHER -> dmx

\* ------------------------------------------------------------------------
\* Sequences: pure part
\* ------------------------------------------------------------------------
\* one (frame, hold_ms, crossfade_ms) entry of build_sequence_frames
SequenceEntry(fixtures, scene, st, root_defaults) ==
  [ frame |->
      IF "all" \in DOMAIN st
      THEN build_dmx_frame(fixtures, [type |-> "static", all |-> st.all], root_defaults)
      ELSE IF "values" \in DOMAIN st
      THEN build_dmx_frame(fixtures, [type |-> "per-fixture", values |-> st.values],
                           root_defaults)
      ELSE Zeros(frame_len(fixtures)),
    hold |-> Get(st, "hold_ms", Get(scene, "hold_ms", 0)),
    xf   |-> Get(st, "crossfade_ms", Get(scene, "crossfade_ms", 0)) ]

build_sequence_frames(fixtures, scene, root_defaults) ==
  LET steps == Get(scene, "steps", <<>>)
  IN [k \in 1..Len(steps) |-> SequenceEntry(fixtures, scene, steps[k], root_defaults)]

\* max(len(f) for f,_,_ in seq)
RECURSIVE MaxFrameLen(_, _, _)
MaxFrameLen(seq, k, acc) ==
  IF k > Len(seq) THEN acc ELSE MaxFrameLen(seq, k + 1, Max(acc, Len(seq[k].frame)))

\* run_sequence: the padded step list
PaddedSequence(fixtures, scene, root_defaults) ==
  LET seq == build_sequence_frames(fixtures, scene, root_defaults)
      L   == MaxFrameLen(seq, 1, 0)
  IN [k \in 1..Len(seq) |-> [seq[k] EXCEPT !.frame = ensure_len(seq[k].frame, L)]]

\* steps = max(2, min(120, xf // 30)) in run_sequence
SequenceSteps(xf) == Max(2, Min(120, xf \div 30))

\* steps = max(2, min(60, fade_ms // 30)) in trigger / api_test_scene
FadeSteps(fade_ms) == Max(2, Min(60, fade_ms \div 30))

\* 2^n
RECURSIVE Pow2(_)
Pow2(n) == IF n = 0 THEN 1 ELSE 2 * Pow2(n - 1)

\* floor(log2(n)) for n >= 1
RECURSIVE Log2(_)
Log2(n) == IF n < 2 THEN 0 ELSE 1 + Log2(n \div 2)

IsPow2(n) == Pow2(Log2(n)) = n

\* 2^p mod m
RECURSIVE Pow2Mod(_, _)
Pow2Mod(p, m) == IF p = 0 THEN 1 % m ELSE (2 * Pow2Mod(p - 1, m)) % m

\* num / den rounded to the nearest integer, a tie to the even one
RoundHalfEven(num, den) ==
  LET q == num \div den
      r == num % den
  IN IF 2 * r > den THEN q + 1
     ELSE IF 2 * r < den THEN q
     ELSE IF q % 2 = 0 THEN q ELSE q + 1

\* the smallest j >= from with i * 2^j >= steps: t = i / steps lies in [2^-j, 2^(1-j))
RECURSIVE BinadeOf(_, _, _)
BinadeOf(i, steps, from) ==
  IF i * Pow2(from) >= steps THEN from ELSE BinadeOf(i, steps, from + 1)

\* the interpolation of a loop that runs over range(0, steps)
MixValueFromStart(a, b, i, steps) == a + (((b - a) * (i - 1)) \div steps)

\* an interpolation with t = i instead of i / steps
MixValueUnscaled(a, b, i, steps) == a + (b - a) * i

\* int(a + (b - a) * t) with t = i / steps, for byte-range a, b and 1 <= i <= steps,
\* as IEEE double arithmetic evaluates it.  Where (b - a) * i / steps is not an
\* integer the result is its floor plus a.  Where it is an integer N, the
\* quotient t carries a rounding error e (r / steps units of its last place), the
\* product |b - a| * t is rounded to a neighbour of N, n places away, and the sum
\* with a is rounded once more; the truncation yields one less than a + N
\* exactly when the sum stays below the integer.
MixValue(a, b, i, steps) ==
  LET d     == b - a
      s     == IF d < 0 THEN 0 - d ELSE d
      exact == a + ((d * i) \div steps)
      N     == (s * i) \div steps
      j     == BinadeOf(i, steps, 0)
      r     == (i * Pow2Mod(52 + j, steps)) % steps
      up    == 2 * r > steps
      enum  == IF up THEN steps - r ELSE r
      k     == Log2(N)
      n     == IF ~up /\ IsPow2(N)
               THEN RoundHalfEven(2 * s * enum, steps * Pow2(k + j))
               ELSE RoundHalfEven(s * enum, steps * Pow2(k + j))
      \* distance of the product from N, in units of 2^-54
      eta   == IF ~up /\ IsPow2(N) THEN n * Pow2(k + 1) ELSE n * Pow2(k + 2)
      \* the product (with the sign of d) lies below the integer
      below == IF d > 0 THEN ~up ELSE up
      \* half the spacing of the doubles below a + N, in units of 2^-54
      half  == IF IsPow2(exact) THEN Pow2(Log2(exact)) ELSE Pow2(Log2(exact) + 1)
  IN IF d = 0 \/ (d * i) % steps # 0 \/ N = 0 \/ r = 0 THEN exact
     ELSE IF eta = 0 \/ ~below \/ exact = 0 THEN exact
     ELSE IF eta <= half THEN exact
     ELSE exact - 1

\* [int(a + (b - a) * t) for a, b in zip(start, target)]
Mix(start, target, i, steps) ==
  [k \in 1..Min(Len(start), Len(target)) |-> MixValue(start[k], target[k], i, steps)]


\* ------------------------------------------------------------------------
\* Configuration snapshot (scenes.json) and request inputs
\* ------------------------------------------------------------------------
Universe == 1

\* one mapless RGBW fixture at channel 1
Rig == << [name |-> "par1", start_channel |-> 1, mode |-> "RGBW"] >>

Defaults == [dimmer |-> 255, strobe |-> 0]

Red   == [r |-> 255, g |-> 0, b |-> 0, w |-> 0]
Green == [r |-> 0, g |-> 255, b |-> 0, w |-> 0]

StaticScene == [type |-> "static", all |-> Red]

\* two steps: step 0 is held and entered unfaded, step 1 is not held and is
\* entered with a crossfade
SequenceScene ==
  [ type  |-> "sequence",
    steps |-> << [all |-> Red, hold_ms |-> 100],
                 [all |-> Green, crossfade_ms |-> 60] >> ]

\* two steps without crossfade, step 0 is held
ShortSequence ==
  [ type  |-> "sequence",
    steps |-> << [all |-> Red, hold_ms |-> 100], [all |-> Green] >> ]

\* buttons of the configuration: index -> scene
Buttons == (1 :> StaticScene) @@ (2 :> SequenceScene) @@ (3 :> ShortSequence)

\* request inputs
TriggerIndexes == {1, 2, 9}
FadeValues     == {0, 60}
DimPercents    == {-20, 50, 150}
DimDeltas      == {-50, 50}
\* payload "scene" of a test-play request; EmptyDict: missing / not an object
TestScenes     == {StaticScene, SequenceScene, EmptyDict}

\* ------------------------------------------------------------------------
\* State
\* ------------------------------------------------------------------------
VARIABLES
  base,        \* CURRENT_BASE_FRAME
  cur,         \* CURRENT_FRAME
  sendLock,    \* owner of SEND_LOCK
  frameLock,   \* owner of FRAME_LOCK
  dimLock,     \* owner of GLOBAL_DIMMER_LOCK
  animThread,  \* ANIM_THREAD
  animStop,    \* ANIM_STOP
  dimmer,      \* GLOBAL_DIMMER_PERCENT
  disk,        \* content of DIMMER_STATE_PATH
  pc,          \* position of every thread
  loc,         \* local variables of every thread
  nreq,        \* number of requests received since the process started
  req,         \* the requests received, in order of arrival
  cancelled,   \* history: runners a returned stop_animation had joined
  aborted,     \* history: threads whose send_dmx call was left by an exception
  lastTarget,  \* history: target of the plain request that took SEND_LOCK last
  lastGate,    \* history: buffer of the last send that is not a dimmer resend
  dirty,       \* history: the last _save_dimmer_to_disk since start failed
  everSet,     \* history: a set_global_dimmer call returned since start
  prevLevel,   \* history: level in memory when the process was restarted
  args,        \* arguments of the function call under evaluation, if any
  result       \* what that call has returned or emitted so far

vars == << base, cur, sendLock, frameLock, dimLock, animThread, animStop,
           dimmer, disk, pc, loc, nreq, req, cancelled, aborted, lastTarget,
           lastGate, dirty, everSet, prevLevel, args, result >>

ReqIds     == 1..MaxRequests
ReqThreads == { <<"req", k>> : k \in ReqIds }
Runners    == { <<"run", k>> : k \in ReqIds }
Stoppers   == { <<"stop", k>> : k \in ReqIds }
Threads    == ReqThreads \cup Runners \cup Stoppers

RunnerOf(t)  == <<"run", t[2]>>
StopperOf(t) == <<"stop", t[2]>>

\* an unowned lock
Free == <<"free", 0>>
\* ANIM_THREAD = None
None == <<"none", 0>>

NoRequest == [kind |-> "none", arg |-> 0, fade |-> 0]

Loc0 ==
  [ ctx    |-> "",        \* call site of the send / accessor in progress
    scene  |-> EmptyDict,
    fade   |-> 0,
    target |-> <<>>,
    len    |-> 0,         \* target_len of get_base_frame
    start  |-> <<>>,
    steps  |-> 0,
    i      |-> 0,
    buf    |-> <<>>,      \* argument dmx of send_dmx
    tosend |-> <<>>,
    pct    |-> 0,
    joined |-> None,      \* thread object stop_animation joins
    seq    |-> <<>>,
    idx    |-> 0,
    nxt    |-> 0,
    last   |-> <<>>,      \* history: the buffer of this thread's last completed sink call
    asked  |-> FALSE ]    \* history: stop_animation was called during this thread's fade

Kind(t) ==
  IF t[1] = "req" THEN req[t[2]].kind
  ELSE IF t[1] = "stop" THEN "stopper" ELSE "runner"

\* threading.Thread.is_alive()
IsAlive(r) == pc[r] \notin {"unborn", "created", "dead"}

\* positions inside send_dmx
SendPcs == { "send_base", "send_base_rel", "send_dim", "send_dim_rel",
             "send_sink", "send_cur", "send_cur_rel", "send_ret" }

\* the thread is in time.sleep(delay) between two frames of a foreground fade
InFadeDelay(u) ==
  /\ loc[u].ctx \in {"trigger_fade", "trigger_seqfade", "test_fade"}
  /\ pc[u] = "send_ret"

\* the thread is in ANIM_STOP.wait(delay) between two frames of a crossfade
InCrossfadeDelay(u) ==
  /\ loc[u].ctx = "run_xf"
  /\ pc[u] \in {"xf_wait", "xf_sleep"}

Goto(t, p, l) == /\ pc' = [pc EXCEPT ![t] = p]
                 /\ loc' = [loc EXCEPT ![t] = l]

\* position of a thread that an uncaught exception has left
Crashed(t) == IF t[1] = "req" THEN "failed" ELSE "dead"

shared   == << base, cur, sendLock, frameLock, dimLock, animThread, animStop,
               dimmer, disk >>
requests == << nreq, req >>
history  == << cancelled, aborted, lastTarget, lastGate, dirty, everSet, prevLevel >>
pure     == << args, result >>
engine   == << shared, pc, loc, requests, history >>

\* no function call is under evaluation
NoCall == [fn |-> "none"]

StartState(file) ==
  /\ base = NoFrame
  /\ cur = NoFrame
  /\ sendLock = Free
  /\ frameLock = Free
  /\ dimLock = Free
  /\ animThread = None
  /\ animStop = FALSE
  /\ disk = file
  /\ dimmer = LoadDimmer(file)
  /\ pc = [t \in Threads |-> IF t[1] = "req" THEN "new" ELSE "unborn"]
  /\ loc = [t \in Threads |-> Loc0]
  /\ nreq = 0
  /\ req = [k \in ReqIds |-> NoRequest]
  /\ cancelled = {}
  /\ aborted = {}
  /\ lastTarget = NoFrame
  /\ lastGate = NoFrame
  /\ dirty = FALSE
  /\ everSet = FALSE
  /\ prevLevel = -1

\* first start: no dimmer.json yet
Init == StartState(NoFile) /\ args = NoCall /\ result = <<>>

\* ------------------------------------------------------------------------
\* Request arrival: the next request gets a thread of its own
\* ------------------------------------------------------------------------
Arrive(kind, arg, fade, p, l) ==
  /\ nreq < MaxRequests
  /\ nreq' = nreq + 1
  /\ req' = [req EXCEPT ![nreq + 1] = [kind |-> kind, arg |-> arg, fade |-> fade]]
  /\ Goto(<<"req", nreq + 1>>, p, l)

\* a trigger that looks the button up only after stop_animation
TriggerStopsFirst(index, fade_ms) ==
  /\ Arrive("trigger", index, fade_ms, "stop_check",
            [Loc0 EXCEPT !.scene = Get(Buttons, index, EmptyDict), !.fade = fade_ms])
  /\ UNCHANGED << pure, shared, history >>

\* trigger: up to the call of stop_animation
Trigger(index, fade_ms) ==
  /\ IF index \in DOMAIN Buttons
     THEN Arrive("trigger", index, fade_ms, "stop_check",
                 [Loc0 EXCEPT !.scene = Buttons[index], !.fade = fade_ms])
     ELSE Arrive("trigger", index, fade_ms, "failed", Loc0)   \* abort(404)
  /\ UNCHANGED << pure, shared, history >>

\* blackout: up to the call of stop_animation
Blackout ==
  /\ Arrive("blackout", 0, 0, "stop_check", Loc0)
  /\ UNCHANGED << pure, shared, history >>

\* api_state_set: up to the call of stop_animation; valid: the body is an object
ApiStateSet(valid) ==
  /\ IF valid
     THEN Arrive("save", 1, 0, "stop_check", Loc0)
     ELSE Arrive("save", 0, 0, "failed", Loc0)                \* abort(400)
  /\ UNCHANGED << pure, shared, history >>

\* api_test_scene: up to the call of stop_animation
ApiTestScene(scene, fade_ms) ==
  /\ IF scene # EmptyDict
     THEN Arrive("test", 1, fade_ms, "stop_check",
                 [Loc0 EXCEPT !.scene = scene, !.fade = fade_ms])
     ELSE Arrive("test", 0, fade_ms, "failed", Loc0)          \* abort(400)
  /\ UNCHANGED << pure, shared, history >>

\* api_dim_step: up to the call of get_global_dimmer
ApiDimStep(delta) ==
  /\ Arrive("dim_step", delta, 0, "dim_get", [Loc0 EXCEPT !.ctx = "step"])
  /\ UNCHANGED << pure, shared, history >>

\* api_dim_set: up to the call of set_global_dimmer
ApiDimSet(percent) ==
  /\ Arrive("dim_set", percent, 0, "dim_set", [Loc0 EXCEPT !.pct = percent])
  /\ UNCHANGED << pure, shared, history >>

\* ------------------------------------------------------------------------
\* stop_animation
\* ------------------------------------------------------------------------
\* if ANIM_THREAD and ANIM_THREAD.is_alive():
StopCheck(t) ==
  /\ pc[t] = "stop_check"
  /\ pc' = [pc EXCEPT ![t] = IF animThread # None /\ IsAlive(animThread)
                              THEN "stop_set" ELSE "stop_clear"]
  /\ loc' = [u \in Threads |->
               IF u # t /\ InFadeDelay(u) THEN [loc[u] EXCEPT !.asked = TRUE] ELSE loc[u]]
  /\ UNCHANGED << pure, shared, requests, history >>

\* ANIM_STOP.set(): the flag is set and every thread blocked in ANIM_STOP.wait
\* is notified; its wait returns True even if the flag is cleared before it runs
StopSet(t) ==
  /\ pc[t] = "stop_set"
  /\ animStop' = TRUE
  /\ pc' = [u \in Threads |->
              IF u = t THEN "stop_join"
              ELSE IF pc[u] = "hold_wait" THEN "hold_woken"
              ELSE IF pc[u] = "xf_sleep" THEN "xf_woken"
              ELSE pc[u]]
  /\ loc' = [u \in Threads |->
               IF InCrossfadeDelay(u) THEN [loc[u] EXCEPT !.asked = TRUE] ELSE loc[u]]
  /\ UNCHANGED << pure, base, cur, sendLock, frameLock, dimLock, animThread, dimmer, disk,
                  requests, history >>

\* ANIM_THREAD.join(timeout=2): the global is read again; None has no join,
\* and a thread that was not started cannot be joined
StopJoin(t) ==
  /\ pc[t] = "stop_join"
  /\ IF animThread = None \/ pc[animThread] = "created"
     THEN Goto(t, Crashed(t), Loc0)
     ELSE Goto(t, "stop_wait", [loc[t] EXCEPT !.joined = animThread])
  /\ UNCHANGED << pure, shared, requests, history >>

\* join returns because the thread has ended
StopJoined(t) ==
  /\ pc[t] = "stop_wait"
  /\ pc[loc[t].joined] = "dead"
  /\ Goto(t, "stop_clear", loc[t])
  /\ UNCHANGED << pure, shared, requests, history >>

\* the joined thread cannot end within the two seconds: it waits for SEND_LOCK
\* that another thread holds, it is inside the sink call, or the flag it polls
\* has been cleared again (unless its hold was already interrupted)
CannotEndSoon(r) ==
  \/ pc[r] = "lock" /\ sendLock # Free
  \/ pc[r] = "send_sink"
  \/ ~animStop /\ pc[r] # "hold_woken"

\* join returns because the timeout has expired
StopJoinTimeout(t) ==
  /\ pc[t] = "stop_wait"
  /\ pc[loc[t].joined] # "dead"
  /\ CannotEndSoon(loc[t].joined)
  /\ Goto(t, "stop_clear", loc[t])
  /\ UNCHANGED << pure, shared, requests, history >>

\* ANIM_STOP.clear()
StopClear(t) ==
  /\ pc[t] = "stop_clear"
  /\ animStop' = FALSE
  /\ Goto(t, "stop_unset", loc[t])
  /\ UNCHANGED << pure, base, cur, sendLock, frameLock, dimLock, animThread, dimmer, disk,
                  requests, history >>

\* ANIM_THREAD = None, and return
StopUnset(t) ==
  /\ pc[t] = "stop_unset"
  /\ animThread' = None
  /\ cancelled' = IF loc[t].joined # None THEN cancelled \cup {loc[t].joined} ELSE cancelled
  /\ Goto(t, "after_stop", [loc[t] EXCEPT !.joined = None])
  /\ UNCHANGED << pure, base, cur, sendLock, frameLock, dimLock, animStop, dimmer, disk,
                  requests, aborted, lastTarget, lastGate, dirty, everSet, prevLevel >>

\* ------------------------------------------------------------------------
\* Handlers after stop_animation
\* ------------------------------------------------------------------------
\* trigger: from the scene type test to the first accessor or send
TriggerAfterStop(t) ==
  /\ pc[t] = "after_stop"
  /\ Kind(t) = "trigger"
  /\ LET l == loc[t]
         seq_frames == build_sequence_frames(Rig, l.scene, Defaults)
         target == build_dmx_frame(Rig, l.scene, Defaults)
     IN IF SceneType(l.scene) = "sequence"
        THEN IF l.fade > 0 /\ Len(seq_frames) > 0
             THEN Goto(t, "base_get", [l EXCEPT !.ctx = "trigger_seqfade",
                                                !.target = seq_frames[1].frame,
                                                !.len = Len(seq_frames[1].frame)])
             ELSE Goto(t, "spawn_assign", l)
        ELSE IF l.fade <= 0
             THEN Goto(t, "lock", [l EXCEPT !.ctx = "trigger_direct", !.target = target,
                                            !.buf = target])
             ELSE Goto(t, "base_get", [l EXCEPT !.ctx = "trigger_fade", !.target = target,
                                                !.len = Len(target)])
  /\ UNCHANGED << pure, shared, requests, history >>

\* blackout: load_cfg and the buffer to send
BlackoutAfterStop(t) ==
  /\ pc[t] = "after_stop"
  /\ Kind(t) = "blackout"
  /\ Goto(t, "lock", [loc[t] EXCEPT !.ctx = "blackout",
                                    !.target = Zeros(frame_len(Rig)),
                                    !.buf = Zeros(frame_len(Rig))])
  /\ UNCHANGED << pure, shared, requests, history >>

\* api_state_set: save_state(data) with the unchanged configuration, and return
ApiStateSetAfterStop(t) ==
  /\ pc[t] = "after_stop"
  /\ Kind(t) = "save"
  /\ Goto(t, "done", Loc0)
  /\ UNCHANGED << pure, shared, requests, history >>

\* api_test_scene: from the scene type test to the first accessor or send
ApiTestSceneAfterStop(t) ==
  /\ pc[t] = "after_stop"
  /\ Kind(t) = "test"
  /\ LET l == loc[t]
         target == build_dmx_frame(Rig, l.scene, Defaults)
     IN IF SceneType(l.scene) = "sequence"
        THEN Goto(t, "spawn_assign", l)
        ELSE IF l.fade <= 0
             THEN Goto(t, "lock", [l EXCEPT !.ctx = "test_direct", !.target = target,
                                            !.buf = target])
             ELSE Goto(t, "base_get", [l EXCEPT !.ctx = "test_fade", !.target = target,
                                                !.len = Len(target)])
  /\ UNCHANGED << pure, shared, requests, history >>

\* stopper of a test-play: time.sleep(duration_ms / 1000) is over
StopperWake(t) ==
  /\ pc[t] = "sleep"
  /\ Goto(t, "stop_check", loc[t])
  /\ UNCHANGED << pure, shared, requests, history >>

\* stopper of a test-play: stop_animation has returned, the thread ends
StopperAfterStop(t) ==
  /\ pc[t] = "after_stop"
  /\ Kind(t) = "stopper"
  /\ Goto(t, "dead", Loc0)
  /\ UNCHANGED << pure, shared, requests, history >>

\* ANIM_THREAD = threading.Thread(target=...)
SpawnAssign(t) ==
  /\ pc[t] = "spawn_assign"
  /\ animThread' = RunnerOf(t)
  /\ pc' = [pc EXCEPT ![t] = "spawn_start", ![RunnerOf(t)] = "created"]
  /\ loc' = [loc EXCEPT ![t] = Loc0,
                        ![RunnerOf(t)] = [Loc0 EXCEPT !.scene = loc[t].scene]]
  /\ UNCHANGED << pure, base, cur, sendLock, frameLock, dimLock, animStop, dimmer, disk,
                  requests, history >>

\* ANIM_THREAD.start(): the global is read again; None has no start, and a
\* thread can be started only once. A test-play then starts its stopper.
SpawnStart(t) ==
  /\ pc[t] = "spawn_start"
  /\ IF animThread = None \/ pc[animThread] # "created"
     THEN Goto(t, Crashed(t), Loc0)
     ELSE /\ pc' = [pc EXCEPT ![t] = "done", ![animThread] = "run_begin",
                              ![StopperOf(t)] = IF Kind(t) = "test" THEN "sleep" ELSE @]
          /\ loc' = [loc EXCEPT ![t] = Loc0]
  /\ UNCHANGED << pure, shared, requests, history >>

\* ------------------------------------------------------------------------
\* Frame state accessors outside send_dmx
\* ------------------------------------------------------------------------
FadeCtxs   == {"trigger_fade", "trigger_seqfade", "test_fade"}
DirectCtxs == {"trigger_direct", "blackout", "test_direct"}
PlainCtxs  == {"trigger_direct", "trigger_fade", "blackout"}

\* get_base_frame(target_len): with FRAME_LOCK: ensure_len(CURRENT_BASE_FRAME, target_len)
GetBaseFrame(t) ==
  /\ pc[t] = "base_get"
  /\ frameLock = Free
  /\ frameLock' = t
  /\ Goto(t, "base_got", [loc[t] EXCEPT !.start = ensure_len(base, loc[t].len)])
  /\ UNCHANGED << pure, base, cur, sendLock, dimLock, animThread, animStop, dimmer, disk,
                  requests, history >>

\* leaving get_base_frame in a foreground fade: steps, and the first mix
FadeBegin(t) ==
  /\ pc[t] = "base_got"
  /\ loc[t].ctx \in FadeCtxs
  /\ frameLock' = Free
  /\ LET l == loc[t]
         steps == FadeSteps(l.fade)
     IN Goto(t, "lock", [l EXCEPT !.steps = steps, !.i = 1,
                                  !.buf = Mix(l.start, l.target, 1, steps)])
  /\ UNCHANGED << pure, base, cur, sendLock, dimLock, animThread, animStop, dimmer, disk,
                  requests, history >>

\* a resend that calls send_dmx inside the with FRAME_LOCK block
ResendBeginInsideFrameLock(t) ==
  /\ pc[t] = "base_got"
  /\ loc[t].ctx = "resend"
  /\ Goto(t, "lock", [loc[t] EXCEPT !.buf = loc[t].start])
  /\ UNCHANGED << pure, shared, requests, history >>

\* leaving get_base_frame in _resend_current_frame: the base read is what is sent
ResendBegin(t) ==
  /\ pc[t] = "base_got"
  /\ loc[t].ctx = "resend"
  /\ frameLock' = Free
  /\ Goto(t, "lock", [loc[t] EXCEPT !.buf = loc[t].start])
  /\ UNCHANGED << pure, base, cur, sendLock, dimLock, animThread, animStop, dimmer, disk,
                  requests, history >>

\* leaving get_base_frame in run_sequence: the crossfade loop starts with i = 1
CrossfadeBegin(t) ==
  /\ pc[t] = "base_got"
  /\ loc[t].ctx = "run_xf"
  /\ frameLock' = Free
  /\ Goto(t, "xf_check", [loc[t] EXCEPT !.i = 1])
  /\ UNCHANGED << pure, base, cur, sendLock, dimLock, animThread, animStop, dimmer, disk,
                  requests, history >>

\* ------------------------------------------------------------------------
\* with SEND_LOCK: send_dmx(universe, dmx)
\* ------------------------------------------------------------------------
\* a send that does not wait for SEND_LOCK
AcquireSendLockUnguarded(t) ==
  /\ pc[t] = "lock"
  /\ sendLock' = t
  /\ lastTarget' = IF loc[t].ctx \in PlainCtxs THEN loc[t].target ELSE lastTarget
  /\ Goto(t, "send_base", loc[t])
  /\ UNCHANGED << pure, base, cur, frameLock, dimLock, animThread, animStop, dimmer, disk,
                  requests, cancelled, aborted, lastGate, dirty, everSet, prevLevel >>

\* with SEND_LOCK:
AcquireSendLock(t) ==
  /\ pc[t] = "lock"
  /\ sendLock = Free
  /\ sendLock' = t
  /\ lastTarget' = IF loc[t].ctx \in PlainCtxs THEN loc[t].target ELSE lastTarget
  /\ Goto(t, "send_base", loc[t])
  /\ UNCHANGED << pure, base, cur, frameLock, dimLock, animThread, animStop, dimmer, disk,
                  requests, cancelled, aborted, lastGate, dirty, everSet, prevLevel >>

\* set_base_frame(dmx): with FRAME_LOCK: CURRENT_BASE_FRAME = list(frame)
SetBaseFrame(t) ==
  /\ pc[t] = "send_base"
  /\ frameLock = Free
  /\ frameLock' = t
  /\ base' = loc[t].buf
  /\ lastGate' = IF loc[t].ctx # "resend" THEN loc[t].buf ELSE lastGate
  /\ Goto(t, "send_base_rel", loc[t])
  /\ UNCHANGED << pure, cur, sendLock, dimLock, animThread, animStop, dimmer, disk,
                  requests, cancelled, aborted, lastTarget, dirty, everSet, prevLevel >>

SetBaseFrameRelease(t) ==
  /\ pc[t] = "send_base_rel"
  /\ frameLock' = Free
  /\ Goto(t, "send_dim", loc[t])
  /\ UNCHANGED << pure, base, cur, sendLock, dimLock, animThread, animStop, dimmer, disk,
                  requests, history >>

\* load_cfg; _apply_global_dimmer: pct = get_global_dimmer(), under GLOBAL_DIMMER_LOCK
SendReadDimmer(t) ==
  /\ pc[t] = "send_dim"
  /\ dimLock = Free
  /\ dimLock' = t
  /\ Goto(t, "send_dim_rel", [loc[t] EXCEPT !.pct = dimmer])
  /\ UNCHANGED << pure, base, cur, sendLock, frameLock, animThread, animStop, dimmer, disk,
                  requests, history >>

\* _apply_global_dimmer: the lock is released and the copy is dimmed
SendApplyDimmer(t) ==
  /\ pc[t] = "send_dim_rel"
  /\ dimLock' = Free
  /\ Goto(t, "send_sink",
          [loc[t] EXCEPT !.tosend = ApplyGlobalDimmer(loc[t].buf, Rig, loc[t].pct)])
  /\ UNCHANGED << pure, base, cur, sendLock, frameLock, animThread, animStop, dimmer, disk,
                  requests, history >>

\* client.SendDmx(universe, data, ...); wrapper.Run() returns: the callback
\* ignores the status it is given, so a delivered frame and a reported failure
\* continue the same way
SinkCall(t) ==
  /\ pc[t] = "send_sink"
  /\ Goto(t, "send_cur", [loc[t] EXCEPT !.last = loc[t].buf])
  /\ UNCHANGED << pure, base, cur, sendLock, frameLock, dimLock, animThread, animStop, dimmer, disk,
                  requests, history >>

\* ClientWrapper() / SendDmx / Run raise (olad not reachable): nothing in send_dmx
\* catches it; the with block releases SEND_LOCK; _resend_current_frame swallows
\* it, every other caller is left by the exception
SinkRaise(t) ==
  /\ pc[t] = "send_sink"
  /\ sendLock' = Free
  /\ aborted' = aborted \cup {t}
  /\ IF loc[t].ctx = "resend"
     THEN Goto(t, "dim_get", [Loc0 EXCEPT !.ctx = "response"])
     ELSE Goto(t, Crashed(t), Loc0)
  /\ UNCHANGED << pure, base, cur, frameLock, dimLock, animThread, animStop, dimmer, disk,
                  requests, cancelled, lastTarget, lastGate, dirty, everSet, prevLevel >>

\* set_current_frame(to_send): with FRAME_LOCK: CURRENT_FRAME = list(frame)
SetCurrentFrame(t) ==
  /\ pc[t] = "send_cur"
  /\ frameLock = Free
  /\ frameLock' = t
  /\ cur' = loc[t].tosend
  /\ Goto(t, "send_cur_rel", loc[t])
  /\ UNCHANGED << pure, base, sendLock, dimLock, animThread, animStop, dimmer, disk,
                  requests, history >>

SetCurrentFrameRelease(t) ==
  /\ pc[t] = "send_cur_rel"
  /\ frameLock' = Free
  /\ Goto(t, "send_ret", loc[t])
  /\ UNCHANGED << pure, base, cur, sendLock, dimLock, animThread, animStop, dimmer, disk,
                  requests, history >>

\* a single send of trigger / blackout / api_test_scene has returned: the with
\* block ends and the handler returns
DirectSendReturn(t) ==
  /\ pc[t] = "send_ret"
  /\ loc[t].ctx \in DirectCtxs
  /\ sendLock' = Free
  /\ Goto(t, "done", Loc0)
  /\ UNCHANGED << pure, base, cur, frameLock, dimLock, animThread, animStop, dimmer, disk,
                  requests, history >>

\* foreground fade: time.sleep(delay), then the next i under the same SEND_LOCK,
\* or the end of the with block
FadeNext(t) ==
  /\ pc[t] = "send_ret"
  /\ loc[t].ctx \in FadeCtxs
  /\ LET l == loc[t]
     IN IF l.i < l.steps
        THEN /\ Goto(t, "send_base",
                     [l EXCEPT !.i = l.i + 1,
                               !.buf = Mix(l.start, l.target, l.i + 1, l.steps)])
             /\ UNCHANGED sendLock
        ELSE /\ sendLock' = Free
             /\ IF l.ctx = "trigger_seqfade"
                THEN Goto(t, "spawn_assign", [Loc0 EXCEPT !.scene = l.scene])
                ELSE Goto(t, "done", Loc0)
  /\ UNCHANGED << pure, base, cur, frameLock, dimLock, animThread, animStop, dimmer, disk,
                  requests, history >>

\* _resend_current_frame has sent: the handler goes on to read the level it returns
ResendReturn(t) ==
  /\ pc[t] = "send_ret"
  /\ loc[t].ctx = "resend"
  /\ sendLock' = Free
  /\ Goto(t, "dim_get", [Loc0 EXCEPT !.ctx = "response"])
  /\ UNCHANGED << pure, base, cur, frameLock, dimLock, animThread, animStop, dimmer, disk,
                  requests, history >>

\* ------------------------------------------------------------------------
\* Global dimmer requests
\* ------------------------------------------------------------------------
\* get_global_dimmer(): with GLOBAL_DIMMER_LOCK: the level is read
GetGlobalDimmer(t) ==
  /\ pc[t] = "dim_get"
  /\ dimLock = Free
  /\ dimLock' = t
  /\ Goto(t, "dim_got", [loc[t] EXCEPT !.pct = dimmer])
  /\ UNCHANGED << pure, base, cur, sendLock, frameLock, animThread, animStop, dimmer, disk,
                  requests, history >>

\* api_dim_step: level = get_global_dimmer() has returned; the argument of
\* set_global_dimmer is level + delta
DimStepRead(t) ==
  /\ pc[t] = "dim_got"
  /\ loc[t].ctx = "step"
  /\ dimLock' = Free
  /\ Goto(t, "dim_set", [Loc0 EXCEPT !.pct = loc[t].pct + req[t[2]].arg])
  /\ UNCHANGED << pure, base, cur, sendLock, frameLock, animThread, animStop, dimmer, disk,
                  requests, history >>

\* api_dim_step / api_dim_set: the level for the response has been read
DimResponse(t) ==
  /\ pc[t] = "dim_got"
  /\ loc[t].ctx = "response"
  /\ dimLock' = Free
  /\ Goto(t, "done", Loc0)
  /\ UNCHANGED << pure, base, cur, sendLock, frameLock, animThread, animStop, dimmer, disk,
                  requests, history >>

\* set_global_dimmer(pct): with GLOBAL_DIMMER_LOCK: the clamped level is stored
SetGlobalDimmer(t) ==
  /\ pc[t] = "dim_set"
  /\ dimLock = Free
  /\ dimLock' = t
  /\ dimmer' = ClampPercent(loc[t].pct)
  /\ Goto(t, "dim_save", loc[t])
  /\ UNCHANGED << pure, base, cur, sendLock, frameLock, animThread, animStop, disk,
                  requests, history >>

\* a dimmer change that is not followed by _resend_current_frame
SaveDimmerNoResend(t, ok) ==
  /\ pc[t] = "dim_save"
  /\ disk' = IF ok THEN dimmer ELSE disk
  /\ dimLock' = Free
  /\ dirty' = ~ok
  /\ everSet' = TRUE
  /\ Goto(t, "dim_get", [Loc0 EXCEPT !.ctx = "response"])
  /\ UNCHANGED << pure, base, cur, sendLock, frameLock, animThread, animStop, dimmer,
                  requests, cancelled, aborted, lastTarget, lastGate, prevLevel >>

\* a save that writes the requested value instead of the clamped level
SaveDimmerUnclamped(t, ok) ==
  /\ pc[t] = "dim_save"
  /\ disk' = IF ok THEN loc[t].pct ELSE disk
  /\ dimLock' = Free
  /\ dirty' = ~ok
  /\ everSet' = TRUE
  /\ Goto(t, "base_get", [Loc0 EXCEPT !.ctx = "resend", !.len = frame_len(Rig)])
  /\ UNCHANGED << pure, base, cur, sendLock, frameLock, animThread, animStop, dimmer,
                  requests, cancelled, aborted, lastTarget, lastGate, prevLevel >>

\* _save_dimmer_to_disk(GLOBAL_DIMMER_PERCENT): the level that was just stored is
\* written, a failing write (ok = FALSE) is ignored; the lock is released and
\* _resend_current_frame starts with load_cfg
SaveDimmer(t, ok) ==
  /\ pc[t] = "dim_save"
  /\ disk' = IF ok THEN dimmer ELSE disk
  /\ dimLock' = Free
  /\ dirty' = ~ok
  /\ everSet' = TRUE
  /\ Goto(t, "base_get", [Loc0 EXCEPT !.ctx = "resend", !.len = frame_len(Rig)])
  /\ UNCHANGED << pure, base, cur, sendLock, frameLock, animThread, animStop, dimmer,
                  requests, cancelled, aborted, lastTarget, lastGate, prevLevel >>

\* the process is stopped at any moment and started again: all threads are gone,
\* the module level state is built anew and the level is loaded from the file
Restart ==
  /\ prevLevel' = IF \E t \in Threads : pc[t] \in {"dim_set", "dim_save"} THEN -1 ELSE dimmer
  /\ base' = NoFrame
  /\ cur' = NoFrame
  /\ sendLock' = Free
  /\ frameLock' = Free
  /\ dimLock' = Free
  /\ animThread' = None
  /\ animStop' = FALSE
  /\ dimmer' = LoadDimmer(disk)
  /\ pc' = [t \in Threads |-> IF t[1] = "req" THEN "new" ELSE "unborn"]
  /\ loc' = [t \in Threads |-> Loc0]
  /\ nreq' = 0
  /\ req' = [k \in ReqIds |-> NoRequest]
  /\ cancelled' = {}
  /\ aborted' = {}
  /\ lastTarget' = NoFrame
  /\ lastGate' = NoFrame
  /\ dirty' = FALSE
  /\ everSet' = FALSE
  /\ UNCHANGED << pure, disk >>

\* ------------------------------------------------------------------------
\* run_sequence
\* ------------------------------------------------------------------------
\* nxt = (idx + 1) % len(seq) and the branch on the next step's crossfade_ms
Advance(l) ==
  LET nxt == (l.idx + 1) % Len(l.seq)
      e   == l.seq[nxt + 1]
  IN IF e.xf > 0
     THEN [ p |-> "base_get",
            l |-> [l EXCEPT !.ctx = "run_xf", !.nxt = nxt, !.target = e.frame,
                            !.len = Len(e.frame), !.steps = SequenceSteps(e.xf)] ]
     ELSE [ p |-> "lock",
            l |-> [l EXCEPT !.ctx = "run_direct", !.nxt = nxt, !.target = e.frame,
                            !.buf = e.frame] ]

\* idx = nxt, back to the test of the while loop
NextIndex(l) ==
  [l EXCEPT !.idx = l.nxt, !.ctx = "", !.target = <<>>, !.start = <<>>, !.buf = <<>>,
            !.tosend = <<>>, !.steps = 0, !.i = 0, !.len = 0, !.nxt = 0, !.pct = 0,
            !.asked = FALSE]

\* the thread starts: the step frames are built and padded; step 0 is sent first
RunBegin(t) ==
  /\ pc[t] = "run_begin"
  /\ LET seq == PaddedSequence(Rig, loc[t].scene, Defaults)
     IN IF Len(seq) = 0
        THEN Goto(t, "dead", Loc0)
        ELSE Goto(t, "lock", [loc[t] EXCEPT !.seq = seq, !.ctx = "run_first",
                                            !.buf = seq[1].frame])
  /\ UNCHANGED << pure, shared, requests, history >>

\* the first send has returned: idx = 0
RunFirstReturn(t) ==
  /\ pc[t] = "send_ret"
  /\ loc[t].ctx = "run_first"
  /\ sendLock' = Free
  /\ Goto(t, "loop", NextIndex([loc[t] EXCEPT !.nxt = 0]))
  /\ UNCHANGED << pure, base, cur, frameLock, dimLock, animThread, animStop, dimmer, disk,
                  requests, history >>

\* while not ANIM_STOP.is_set(): ... if cur_hold > 0: wait, else go on
LoopCheck(t) ==
  /\ pc[t] = "loop"
  /\ IF animStop
     THEN Goto(t, "dead", Loc0)
     ELSE IF loc[t].seq[loc[t].idx + 1].hold > 0
          THEN Goto(t, "hold", loc[t])
          ELSE Goto(t, Advance(loc[t]).p, Advance(loc[t]).l)
  /\ UNCHANGED << pure, shared, requests, history >>

\* ANIM_STOP.wait(cur_hold / 1000) finds the flag clear and blocks
HoldBegin(t) ==
  /\ pc[t] = "hold"
  /\ ~animStop
  /\ Goto(t, "hold_wait", loc[t])
  /\ UNCHANGED << pure, shared, requests, history >>

\* variant: the woken wait looks at the flag again instead of returning True
HoldCancelledRechecks(t) ==
  /\ \/ pc[t] = "hold" /\ animStop
     \/ pc[t] = "hold_woken"
  /\ IF animStop
     THEN Goto(t, "dead", Loc0)
     ELSE Goto(t, Advance(loc[t]).p, Advance(loc[t]).l)
  /\ UNCHANGED << pure, shared, requests, history >>

\* ANIM_STOP.wait(cur_hold / 1000) returns True, at once because the flag is
\* set or because set() has notified the waiting thread: break, and
\* run_sequence returns
HoldCancelled(t) ==
  /\ \/ pc[t] = "hold" /\ animStop
     \/ pc[t] = "hold_woken"
  /\ Goto(t, "dead", Loc0)
  /\ UNCHANGED << pure, shared, requests, history >>

\* ANIM_STOP.wait(cur_hold / 1000) returns False after the hold time
HoldElapsed(t) ==
  /\ pc[t] = "hold_wait"
  /\ Goto(t, Advance(loc[t]).p, Advance(loc[t]).l)
  /\ UNCHANGED << pure, shared, requests, history >>

\* variant: the crossfade is mixed from the buffer of the step being left
CrossfadeCheckFromStep(t) ==
  /\ pc[t] = "xf_check"
  /\ LET l == loc[t]
     IN IF animStop
        THEN Goto(t, "loop", NextIndex(l))
        ELSE Goto(t, "lock", [l EXCEPT !.buf = Mix(l.seq[l.idx + 1].frame, l.target,
                                                  l.i, l.steps)])
  /\ UNCHANGED << pure, shared, requests, history >>

\* for i in range(1, steps + 1): if ANIM_STOP.is_set(): break; mix = ...
CrossfadeCheck(t) ==
  /\ pc[t] = "xf_check"
  /\ LET l == loc[t]
     IN IF animStop
        THEN Goto(t, "loop", NextIndex(l))
        ELSE Goto(t, "lock", [l EXCEPT !.buf = Mix(l.start, l.target, l.i, l.steps)])
  /\ UNCHANGED << pure, shared, requests, history >>

\* the send of a crossfade frame has returned: SEND_LOCK is released
CrossfadeSendReturn(t) ==
  /\ pc[t] = "send_ret"
  /\ loc[t].ctx = "run_xf"
  /\ sendLock' = Free
  /\ Goto(t, "xf_wait", loc[t])
  /\ UNCHANGED << pure, base, cur, frameLock, dimLock, animThread, animStop, dimmer, disk,
                  requests, history >>

\* ANIM_STOP.wait(delay) finds the flag clear and blocks
CrossfadeWaitBegin(t) ==
  /\ pc[t] = "xf_wait"
  /\ ~animStop
  /\ Goto(t, "xf_sleep", loc[t])
  /\ UNCHANGED << pure, shared, requests, history >>

\* ANIM_STOP.wait(delay) returns True, at once or after set() has notified the
\* waiting thread: break, then idx = nxt
CrossfadeWaitCancelled(t) ==
  /\ \/ pc[t] = "xf_wait" /\ animStop
     \/ pc[t] = "xf_woken"
  /\ Goto(t, "loop", NextIndex(loc[t]))
  /\ UNCHANGED << pure, shared, requests, history >>

\* ANIM_STOP.wait(delay) returns False: next i, or the loop is over
CrossfadeWaitElapsed(t) ==
  /\ pc[t] = "xf_sleep"
  /\ LET l == loc[t]
     IN IF l.i < l.steps
        THEN Goto(t, "xf_check", [l EXCEPT !.i = l.i + 1])
        ELSE Goto(t, "loop", NextIndex(l))
  /\ UNCHANGED << pure, shared, requests, history >>

\* the unfaded send of the next step has returned: idx = nxt
DirectStepReturn(t) ==
  /\ pc[t] = "send_ret"
  /\ loc[t].ctx = "run_direct"
  /\ sendLock' = Free
  /\ Goto(t, "loop", NextIndex(loc[t]))
  /\ UNCHANGED << pure, base, cur, frameLock, dimLock, animThread, animStop, dimmer, disk,
                  requests, history >>

\* ------------------------------------------------------------------------
\* Specifications
\* ------------------------------------------------------------------------
\* steps of the transmission gate and of the accessor used around it
GateStep(t) ==
  \/ GetBaseFrame(t)
  \/ AcquireSendLock(t)
  \/ SetBaseFrame(t)
  \/ SetBaseFrameRelease(t)
  \/ SendReadDimmer(t)
  \/ SendApplyDimmer(t)
  \/ SinkCall(t)
  \/ SinkRaise(t)
  \/ SetCurrentFrame(t)
  \/ SetCurrentFrameRelease(t)

DimmerStep(t) ==
  \/ GetGlobalDimmer(t)
  \/ DimStepRead(t)
  \/ DimResponse(t)
  \/ SetGlobalDimmer(t)
  \/ \E ok \in BOOLEAN : SaveDimmer(t, ok)
  \/ ResendBegin(t)
  \/ ResendReturn(t)

StopStep(t) ==
  \/ StopCheck(t)
  \/ StopSet(t)
  \/ StopJoin(t)
  \/ StopJoined(t)
  \/ StopJoinTimeout(t)
  \/ StopClear(t)
  \/ StopUnset(t)

HandlerStep(t) ==
  \/ TriggerAfterStop(t)
  \/ BlackoutAfterStop(t)
  \/ ApiStateSetAfterStop(t)
  \/ SpawnAssign(t)
  \/ SpawnStart(t)
  \/ FadeBegin(t)
  \/ FadeNext(t)
  \/ DirectSendReturn(t)

TestStep(t) ==
  \/ ApiTestSceneAfterStop(t)
  \/ StopperWake(t)
  \/ StopperAfterStop(t)

RunnerStep(t) ==
  \/ RunBegin(t)
  \/ RunFirstReturn(t)
  \/ LoopCheck(t)
  \/ HoldBegin(t)
  \/ HoldCancelled(t)
  \/ HoldElapsed(t)
  \/ CrossfadeBegin(t)
  \/ CrossfadeCheck(t)
  \/ CrossfadeSendReturn(t)
  \/ CrossfadeWaitBegin(t)
  \/ CrossfadeWaitCancelled(t)
  \/ CrossfadeWaitElapsed(t)
  \/ DirectStepReturn(t)

Request ==
  \/ \E index \in TriggerIndexes, fade_ms \in FadeValues : Trigger(index, fade_ms)
  \/ Blackout
  \/ \E valid \in BOOLEAN : ApiStateSet(valid)
  \/ \E delta \in DimDeltas : ApiDimStep(delta)
  \/ \E percent \in DimPercents : ApiDimSet(percent)

\* the engine under trigger, blackout, state-save and dimmer requests, within
\* one lifetime of the process
Next ==
  \/ Request
  \/ \E t \in ReqThreads \cup Runners :
        GateStep(t) \/ DimmerStep(t) \/ StopStep(t) \/ HandlerStep(t) \/ RunnerStep(t)

Spec == Init /\ [][Next]_vars

\* test-play of a sequence and a trigger of the same sequence, and the two
\* requests that are rejected: a test-play without a scene, an undefined button
TestRequest ==
  \/ ApiTestScene(ShortSequence, 0)
  \/ ApiTestScene(EmptyDict, 0)
  \/ Trigger(3, 0)
  \/ Trigger(9, 0)

\* the sends of these requests: none of them reads the base frame
TestGateStep(t) ==
  \/ AcquireSendLock(t)
  \/ SetBaseFrame(t)
  \/ SetBaseFrameRelease(t)
  \/ SendReadDimmer(t)
  \/ SendApplyDimmer(t)
  \/ SinkCall(t)
  \/ SinkRaise(t)
  \/ SetCurrentFrame(t)
  \/ SetCurrentFrameRelease(t)

TestSpawnStep(t) ==
  \/ TriggerAfterStop(t)
  \/ SpawnAssign(t)
  \/ SpawnStart(t)

\* the steps of a runner whose sequence has no crossfade
TestRunnerStep(t) ==
  \/ RunBegin(t)
  \/ RunFirstReturn(t)
  \/ LoopCheck(t)
  \/ HoldBegin(t)
  \/ HoldCancelled(t)
  \/ HoldElapsed(t)
  \/ DirectStepReturn(t)

\* the engine under test-play requests, with the stopper threads they start
NextTest ==
  \/ TestRequest
  \/ \E t \in Threads :
        \/ TestGateStep(t) \/ StopStep(t) \/ TestStep(t) \/ TestSpawnStep(t)
        \/ TestRunnerStep(t)

SpecTest == Init /\ [][NextTest]_vars

\* the global dimmer alone, across restarts of the process
NextDimmer ==
  \/ \E delta \in DimDeltas : ApiDimStep(delta)
  \/ \E percent \in DimPercents : ApiDimSet(percent)
  \/ \E t \in ReqThreads : GateStep(t) \/ DimmerStep(t)
  \/ Restart

SpecDimmer == Init /\ [][NextDimmer]_vars

\* ------------------------------------------------------------------------
\* The fade loops, each as a function of its inputs
\* ------------------------------------------------------------------------
\* a fade is run by trigger, by api_test_scene or, as a crossfade, by run_sequence
FadeCallers == {"trigger", "api_test_scene", "run_sequence"}

\* fade_ms / crossfade_ms of the fades evaluated
FadeDurations == {20, 60, 100, 300, 1000, 2500, 6000}

\* CURRENT_BASE_FRAME when the fade begins: unset, of the rig's length, shorter
\* and longer than the target
FadeBases == { NoFrame, <<0, 0, 0, 0>>, <<255, 255, 255, 255>>, <<10, 20>>,
               <<1, 2, 3, 4, 5, 6>> }

FadeTargets == { <<255, 0, 0, 0>>, <<0, 0, 0, 0>>, <<90, 171, 3, 200>> }

FadeCalls ==
  { [fn |-> "fade", caller |-> c, ms |-> ms, base |-> b, target |-> t,
     start |-> <<>>, steps |-> 0, i |-> 0, at |-> "begin", stopped |-> FALSE] :
    c \in FadeCallers, ms \in FadeDurations, b \in FadeBases, t \in FadeTargets }

\* start = get_base_frame(len(target)); steps = max(2, min(.., ms // 30))
FadeSetUp ==
  /\ args.fn = "fade" /\ args.at = "begin"
  /\ args' = [args EXCEPT
                !.start = ensure_len(args.base, Len(args.target)),
                !.steps = IF args.caller = "run_sequence"
                          THEN SequenceSteps(args.ms) ELSE FadeSteps(args.ms),
                !.i = 1,
                !.at = "loop"]
  /\ UNCHANGED << engine, result >>

\* one pass of the loop body: the frame for i is handed to send_dmx
FadeEmit ==
  /\ args.fn = "fade" /\ args.at = "loop" /\ args.i <= args.steps
  /\ result' = Append(result, [i |-> args.i,
                               frame |-> Mix(args.start, args.target, args.i, args.steps)])
  /\ args' = [args EXCEPT !.i = args.i + 1]
  /\ UNCHANGED engine

\* for i in range(1, steps + 1) is exhausted
FadeEnd ==
  /\ args.fn = "fade" /\ args.at = "loop" /\ args.i > args.steps
  /\ args' = [args EXCEPT !.at = "done"]
  /\ UNCHANGED << engine, result >>

\* run_sequence only: ANIM_STOP is found set before or after a pass, break
FadeBreak ==
  /\ args.fn = "fade" /\ args.at = "loop" /\ args.caller = "run_sequence"
  /\ args.i <= args.steps
  /\ args' = [args EXCEPT !.at = "done", !.stopped = TRUE]
  /\ UNCHANGED << engine, result >>

NextFade == FadeSetUp \/ FadeEmit \/ FadeEnd \/ FadeBreak

SpecFade == StartState(NoFile) /\ args \in FadeCalls /\ result = <<>> /\ [][NextFade]_vars

\* ------------------------------------------------------------------------
\* The global dimmer inside send_dmx, as a function of its inputs
\* ------------------------------------------------------------------------
RigRGB   == << [name |-> "par1", start_channel |-> 1, mode |-> "RGB"] >>
RigDim   == << [name |-> "par1", start_channel |-> 1, mode |-> "RGBW",
                map |-> << "DIM", "R", "G", "B" >>] >>
\* an amber channel behind the four colours
RigAmber == << [name |-> "par1", start_channel |-> 1, mode |-> "RGBWA",
                map |-> << "R", "G", "B", "W", "A" >>] >>
\* an amber channel first, roles in lower case
RigAmberFirst == << [name |-> "par1", start_channel |-> 1, mode |-> "RGBWA",
                     map |-> << "a", "r", "g", "b" >>] >>
RigTwo   == << [name |-> "par1", start_channel |-> 1, mode |-> "RGBW"],
               [name |-> "par2", start_channel |-> 5, mode |-> "RGBW",
                map |-> << "DIM", "R", "G", "B" >>] >>

DimRigs == { <<>>, Rig, RigRGB, RigDim, RigAmber, RigAmberFirst, RigTwo }

\* base frames handed to send_dmx: empty, shorter and longer than the rigs
DimFrames == { <<>>, << 255, 0, 0, 0 >>, << 9, 9 >>, << 200, 100, 50, 25, 200 >>,
               << 1, 2, 3, 4, 5, 6, 7, 8 >> }

DimLevels == { 0, 33, 50, 100 }

\* every channel value at every level on the one-fixture RGBW rig, and the
\* other rigs and frames at a few levels
DimCalls ==
  { [fn |-> "dim", fixtures |-> Rig, frame |-> << v, 0, 0, 0 >>, pct |-> p] :
      v \in 0..255, p \in 0..100 }
  \cup
  { [fn |-> "dim", fixtures |-> f, frame |-> d, pct |-> p] :
      f \in DimRigs, d \in DimFrames, p \in DimLevels }

\* to_send = _apply_global_dimmer(list(dmx), fixtures), the level being pct
DimmerApply ==
  /\ args.fn = "dim" /\ result = <<>>
  /\ result' = << ApplyGlobalDimmer(args.frame, args.fixtures, args.pct) >>
  /\ UNCHANGED << engine, args >>

NextDimmerApply == DimmerApply

SpecDimmerApply ==
  StartState(NoFile) /\ args \in DimCalls /\ result = <<>> /\ [][NextDimmerApply]_vars

\* ------------------------------------------------------------------------
\* The frame builder, as a function of its inputs
\* ------------------------------------------------------------------------
\* mapless fixtures of mode RGBWA, of a lower-case mode at channel 3, of no mode
RigRGBWA   == << [name |-> "par1", start_channel |-> 1, mode |-> "RGBWA"] >>
RigLowRGB  == << [name |-> "par1", start_channel |-> 3, mode |-> "rgb"] >>
RigNoMode  == << [name |-> "par1", start_channel |-> 2] >>
\* a map with a role the builder does not know, and a strobe channel
RigUnknown == << [name |-> "par1", start_channel |-> 1, mode |-> "RGB",
                  map |-> << "R", "X", "G", "strobe" >>] >>

BuildRigs == { <<>>, Rig, RigRGB, RigRGBWA, RigLowRGB, RigNoMode, RigDim, RigAmber,
               RigAmberFirst, RigUnknown, RigTwo }

\* colours: every component set and distinct, and components outside 0..255
Tinted   == [r |-> 11, g |-> 22, b |-> 33, w |-> 44, a |-> 55]
Overshot == [r |-> 300, g |-> -5, b |-> 256, w |-> -1, a |-> 999]

BuildColors == { Tinted, Overshot, Red }

\* attrs of a scene: none, set and distinct, outside 0..255
BuildAttrs == { EmptyDict, [dimmer |-> 200, strobe |-> 7], [dimmer |-> 300, strobe |-> -7] }

\* scene types that build_dmx_frame does not build: blackout in two spellings,
\* an unknown type, and sequence
UnbuiltTypes == { "blackout", "Blackout", "chase", "sequence" }

BuildScenes ==
  { [type |-> "static", all |-> c, attrs |-> at] : c \in BuildColors, at \in BuildAttrs }
  \cup
  { [type |-> "per-fixture", values |-> ("par1" :> c), attrs |-> at,
     per_fixture_attrs |-> ("par2" :> [dimmer |-> 100])] :
      c \in BuildColors, at \in BuildAttrs }
  \cup
  { [type |-> t, all |-> c, values |-> ("par1" :> c), steps |-> << [all |-> c] >>] :
      t \in UnbuiltTypes, c \in BuildColors }
  \cup
  { EmptyDict, [all |-> Tinted] }

BuildCalls ==
  { [fn |-> "build", fixtures |-> f, scene |-> sc, defaults |-> Defaults] :
      f \in BuildRigs, sc \in BuildScenes }

\* build_dmx_frame(fixtures, scene, root_defaults)
BuildFrame ==
  /\ args.fn = "build" /\ result = <<>>
  /\ result' = << build_dmx_frame(args.fixtures, args.scene, args.defaults) >>
  /\ UNCHANGED << engine, args >>

NextBuild == BuildFrame

SpecBuild == StartState(NoFile) /\ args \in BuildCalls /\ result = <<>> /\ [][NextBuild]_vars

\* ------------------------------------------------------------------------
\* Properties
\* ------------------------------------------------------------------------
\* the requests received so far have all returned (normally or with an error)
Quiescent == nreq >= 1 /\ \A k \in 1..nreq : pc[<<"req", k>>] \in {"done", "failed"}

\* no runner thread is created or running
NoRunner == \A r \in Runners : pc[r] \in {"unborn", "dead"}

\* request k is a trigger of a button whose scene is a sequence
IsSequenceTrigger(k) ==
  /\ req[k].kind = "trigger"
  /\ req[k].arg \in DOMAIN Buttons
  /\ SceneType(Buttons[req[k].arg]) = "sequence"

\* request k is a blackout or a trigger of something that is no sequence
IsPlainRequest(k) ==
  \/ req[k].kind = "blackout"
  \/ req[k].kind = "trigger" /\ ~IsSequenceTrigger(k)

\* a set_global_dimmer call is between its assignment and its save
SetInProgress == \E t \in Threads : pc[t] = "dim_save"

\* C1: at most one Sequence Runner thread (started, run_sequence not yet
\* returned) is alive at any moment, whatever the interleaving of requests.
AtMostOneRunner == Cardinality({ r \in Runners : IsAlive(r) }) <= 1

\* C2: a runner that a returned stop_animation had asked to stop and joined
\* (join finished or timed out) makes no further send_dmx call.
CancelledRunnerSendsNothing ==
  [][\A r \in cancelled : ~(pc[r] = "lock" /\ pc'[r] = "send_base")]_vars

\* C3: a thread is inside send_dmx (and so at the sink call) only while it holds
\* SEND_LOCK; hence at most one thread is inside send_dmx and the steps of two
\* sends never interleave.
SendOnlyUnderLock ==
  /\ \A t \in Threads : pc[t] \in SendPcs => sendLock = t
  /\ Cardinality({ t \in Threads : pc[t] \in SendPcs }) <= 1

\* C3 witness: one thread is at the sink call while another waits for SEND_LOCK
SendRace ==
  \E t, u \in Threads : t # u /\ pc[t] = "send_sink" /\ pc[u] = "lock"

\* C4: when the latest request is a blackout that has returned and a sequence
\* trigger was received before it, the base frame is all-zero and no runner is
\* inside send_dmx.
NewerBlackoutWins ==
  ( /\ nreq >= 2
    /\ req[nreq].kind = "blackout"
    /\ pc[<<"req", nreq>>] = "done"
    /\ \E j \in 1..(nreq - 1) : IsSequenceTrigger(j) )
  => ( /\ base = Zeros(frame_len(Rig))
       /\ \A r \in Runners : pc[r] \notin SendPcs )

\* C5: a failure of the DMX sink never makes send_dmx leave by an exception:
\* the send returns normally and the fade or runner goes on.
SendSurvivesSinkFailure == aborted = {}

\* C6: once all of a set of non-sequence trigger and blackout requests have
\* returned, the base frame is the complete target of the request that took
\* SEND_LOCK last.
LastWriterWins ==
  ( /\ Quiescent
    /\ \A k \in 1..nreq : IsPlainRequest(k)
    /\ lastTarget # NoFrame )
  => base = lastTarget

\* C7: dimmer requests never change the base frame: when all requests have
\* returned and no runner exists, the base frame is the buffer of the last
\* send made for a trigger or blackout.
DimmerKeepsBase ==
  (Quiescent /\ NoRunner /\ lastGate # NoFrame) => base = lastGate

\* C8 as stated: no thread holds FRAME_LOCK or GLOBAL_DIMMER_LOCK together with
\* SEND_LOCK.
NoNestedLocks ==
  \A t \in Threads : ~(sendLock = t /\ (frameLock = t \/ dimLock = t))

\* C8 amended: no thread waits for SEND_LOCK while it holds FRAME_LOCK or
\* GLOBAL_DIMMER_LOCK, these two are never held together, and they are held
\* together with SEND_LOCK only inside send_dmx.
LockOrder ==
  \A t \in Threads :
    /\ (frameLock = t \/ dimLock = t) => pc[t] # "lock"
    /\ ~(frameLock = t /\ dimLock = t)
    /\ (sendLock = t /\ (frameLock = t \/ dimLock = t)) => pc[t] \in SendPcs

\* C8 witness: inside send_dmx a thread holds GLOBAL_DIMMER_LOCK under SEND_LOCK
\* while another thread waits for SEND_LOCK
DimmerLockUnderSendLock ==
  \E t, u \in Threads : sendLock = t /\ dimLock = t /\ pc[u] = "lock"

FadeCompleted == args.fn = "fade" /\ args.at = "done" /\ ~args.stopped

\* C11: a fade that runs to completion has emitted exactly `steps` frames, the
\* n-th of them for i = n (so none for i = 0), and the last one is the target.
FadeLandsOnTarget ==
  FadeCompleted =>
    /\ Len(result) = args.steps
    /\ \A n \in 1..Len(result) : result[n].i = n
    /\ result[Len(result)].frame = args.target

\* C11 witness: a 33-step crossfade from a shorter base frame has completed
FadeOf33Completed ==
  /\ FadeCompleted /\ args.steps = 33 /\ args.base = <<10, 20>>
  /\ args.target = <<90, 171, 3, 200>> /\ Len(result) = 33

\* the documented band of step counts for a fade of d ms, as << min, max >>
StepBand(d) ==
  IF d < 100 THEN << 2, 5 >>
  ELSE IF d < 500 THEN << 5, 15 >>
  ELSE IF d < 2000 THEN << 15, 40 >>
  ELSE IF d < 5000 THEN << 40, 80 >>
  ELSE << 80, 150 >>

\* the step count the caller's loop uses for d ms
StepsUsed(caller, d) ==
  IF caller = "run_sequence" THEN SequenceSteps(d) ELSE FadeSteps(d)

\* C12: the step count of a fade of d ms lies within the band documented for d
\* and no shorter fade of the same band uses more steps.
StepsWithinBand ==
  (args.fn = "fade" /\ args.at # "begin") =>
    /\ StepBand(args.ms)[1] <= args.steps
    /\ args.steps <= StepBand(args.ms)[2]
    /\ \A d \in FadeDurations :
         (d <= args.ms /\ StepBand(d) = StepBand(args.ms))
            => StepsUsed(args.caller, d) <= args.steps

\* C13: the crossfade of 1000 ms from the all-zero base frame to [255,0,0,0]
\* uses 25 steps and the red channel of its 13th frame is within 132..134.
ThirteenthFrameOf25 ==
  ( /\ args.fn = "fade" /\ args.caller = "run_sequence" /\ args.ms = 1000
    /\ args.base = << 0, 0, 0, 0 >> /\ args.target = << 255, 0, 0, 0 >>
    /\ Len(result) >= 13 )
  => (args.steps = 25 /\ result[13].frame[1] \in 132..134)

\* the dimmer has been applied to the frame under evaluation
Dimmed == args.fn = "dim" /\ Len(result) = 1

\* v * pct / 100 rounded half-up
HalfUp(v, pct) == (2 * v * pct + 100) \div 200

\* the fixture has neither a DIM nor an A role in its map
NoLevelRole(f) ==
  IndexFrom(UpperMap(f), "DIM", 1) = 0 /\ IndexFrom(UpperMap(f), "A", 1) = 0

\* C14: below 100%, every colour channel the dimmer scales (the first
\* min(span, 4) channels of a fixture without a level role) becomes
\* floor(v * pct / 100 + 1/2).
ScalesHalfUp ==
  (Dimmed /\ args.pct < 100 /\ Len(args.fixtures) = 1 /\ NoLevelRole(args.fixtures[1])) =>
    \A k \in 1..Len(args.frame) :
       k <= Min(FixtureSpan(args.fixtures[1]), 4)
          => result[1][k] = HalfUp(args.frame[k], args.pct)

\* C15: at 100% the frame handed on to the sink is the base frame passed in.
FullLevelIsIdentity ==
  (Dimmed /\ args.pct = 100) => result[1] = args.frame

\* C15 witness: a frame went through at 100% on a rig with a DIM channel
FullLevelOnDimRig ==
  /\ Dimmed /\ args.pct = 100 /\ args.fixtures = RigTwo
  /\ args.frame = << 1, 2, 3, 4, 5, 6, 7, 8 >> /\ result[1][5] = 5

\* C16: a mapped DIM or A channel is set to round(255 * pct / 100), so to 0 at
\* 0%, whatever it held; at 0% every other fixture has its first min(span, 4)
\* channels at 0.
LevelChannelsOverridden ==
  (Dimmed /\ args.pct < 100) =>
    \A n \in 1..Len(args.fixtures) :
      LET f    == args.fixtures[n]
          m    == UpperMap(f)
          lo   == f.start_channel
      IN /\ \A role \in {"DIM", "A"} :
              LET ch == lo + IndexFrom(m, role, 1) - 1
              IN (IndexFrom(m, role, 1) > 0 /\ ch <= Len(args.frame))
                    => /\ result[1][ch] \in { HalfUp(255, args.pct),
                                              ScaleRound(255, args.pct) }
         /\ (NoLevelRole(f) /\ args.pct = 0) =>
              \A k \in lo..(lo + Min(FixtureSpan(f), 4) - 1) :
                 k <= Len(args.frame) => result[1][k] = 0

\* the frame under evaluation has been built
Built == args.fn = "build" /\ Len(result) = 1

\* C17: every value of a built frame is in 0..255.
BuiltValuesAreBytes ==
  Built => \A k \in 1..Len(result[1]) : result[1][k] \in 0..255

\* the role tokens of a fixture map
KnownRoles == { "R", "G", "B", "W", "A", "DIM", "STROBE" }

\* the buffer positions (1-based) the fixture is documented to write
DocumentedPositions(f) ==
  LET m == UpperMap(f)
  IN IF Len(m) > 0
     THEN { f.start_channel + (o - 1) : o \in { o \in 1..Len(m) : m[o] \in KnownRoles } }
     ELSE IF Upper(Get(f, "mode", "RGBW")) = "RGBW"
     THEN f.start_channel..(f.start_channel + 3)
     ELSE f.start_channel..(f.start_channel + 2)

\* the modes whose mapless layout is documented as 4 / 3 contiguous channels
PlainMode(f) == Len(UpperMap(f)) > 0 \/ Upper(Get(f, "mode", "RGBW")) \in { "RGB", "RGBW" }

\* C18: with every colour component and attribute set to a distinct non-zero
\* byte, the positions of the built frame that are not 0 are exactly the
\* positions of the fixtures' known roles (4 resp. 3 contiguous channels for a
\* mapless RGBW resp. RGB fixture).
WritesExactlyTheMap ==
  ( /\ Built /\ SceneTypeOrStatic(args.scene) = "static"
    /\ Get(args.scene, "all", EmptyDict) = Tinted
    /\ Get(args.scene, "attrs", EmptyDict) = [dimmer |-> 200, strobe |-> 7]
    /\ \A n \in 1..Len(args.fixtures) : PlainMode(args.fixtures[n]) )
  => { k \in 1..Len(result[1]) : result[1][k] # 0 }
       = UNION { DocumentedPositions(args.fixtures[n]) : n \in 1..Len(args.fixtures) }

\* span of a fixture as documented: len(map), else RGB 3, RGBW 4, RGBWA 5
DocumentedSpan(f) ==
  LET mode == Upper(Get(f, "mode", "RGBW"))
  IN IF Len(UpperMap(f)) > 0 THEN Len(UpperMap(f))
     ELSE IF mode = "RGBWA" THEN 5 ELSE IF mode = "RGBW" THEN 4 ELSE 3

\* C19: the length of a built frame is the maximum of start_channel + span - 1
\* over the fixtures, 0 for an empty rig.
LengthIsRigEnd ==
  Built =>
    /\ \A n \in 1..Len(args.fixtures) :
          Len(result[1]) >= args.fixtures[n].start_channel
                              + DocumentedSpan(args.fixtures[n]) - 1
    /\ \/ Len(args.fixtures) = 0 /\ Len(result[1]) = 0
       \/ \E n \in 1..Len(args.fixtures) :
             Len(result[1]) = args.fixtures[n].start_channel
                                + DocumentedSpan(args.fixtures[n]) - 1

Rejected(r) ==
  \/ r.kind = "trigger" /\ r.arg \notin DOMAIN Buttons
  \/ r.kind = "test" /\ r.arg = 0

\* C21: a trigger of an undefined button and a test-play without a valid scene
\* fail at once; the step that rejects them changes neither the base frame,
\* the current frame, the dimmer level, the cancellation flag, the handle nor
\* the position of any other thread, and their thread takes no further step.
RejectedLeavesNoTrace ==
  [][ \A k \in ReqIds :
        (k <= nreq' /\ Rejected(req'[k])) =>
           /\ pc'[<<"req", k>>] = "failed"
           /\ k > nreq =>
                /\ base' = base /\ cur' = cur /\ dimmer' = dimmer
                /\ animStop' = animStop /\ animThread' = animThread
                /\ \A u \in Threads \ {<<"req", k>>} : pc'[u] = pc[u] ]_vars

\* C21 witness: a request was rejected while a runner is alive
RejectedWhileRunning ==
  /\ nreq = 2 /\ Rejected(req[2]) /\ pc[<<"req", 2>>] = "failed"
  /\ IsAlive(<<"run", 1>>) /\ animThread = <<"run", 1>>

\* C22: a runner emits step 0 first and unfaded; whenever it goes on from the
\* top of its loop with step idx (to hold it or to leave it for the next step),
\* the buffer it emitted last is the buffer of step idx; and idx only ever
\* advances by one, modulo the number of steps.
StepsInCircularOrder ==
  [][ \A r \in Runners :
        /\ (pc'[r] = "lock" /\ loc'[r].ctx = "run_first")
              => loc'[r].buf = loc'[r].seq[1].frame
        /\ (pc[r] = "loop" /\ pc'[r] \notin { "loop", "dead" })
              => loc[r].last = loc[r].seq[loc[r].idx + 1].frame
        /\ (pc'[r] = "loop" /\ pc[r] # "loop" /\ loc[r].ctx # "run_first")
              => loc'[r].idx = (loc[r].idx + 1) % Len(loc[r].seq) ]_vars

\* C23: a started runner never ends on its own: its thread ends only with the
\* cancellation flag set, or after a wait of it was woken by the flag being set.
RunnerEndsOnlyWhenCancelled ==
  [][ \A r \in Runners :
        (IsAlive(r) /\ pc'[r] = "dead") => (animStop \/ pc[r] = "hold_woken") ]_vars

\* C24: a runner whose hold wait is woken by the cancellation being signalled
\* does nothing but return: it is woken when the flag is set during its wait,
\* it takes no step other than ending, and an ended runner stays ended.
CancelledHoldEnds ==
  [][ \A r \in Runners :
        /\ (pc[r] = "hold_wait" /\ ~animStop /\ animStop') => pc'[r] = "hold_woken"
        /\ pc[r] = "hold_woken" => pc'[r] \in { "hold_woken", "dead" }
        /\ pc[r] = "dead" => pc'[r] = "dead" ]_vars

\* a runner woken in its hold while the flag has already been cleared again
WokenAfterFlagCleared ==
  \E r \in Runners : pc[r] = "hold_woken" /\ ~animStop

\* C25: a crossfade of a runner starts from the base frame as it is when the
\* crossfade begins: the start it reads is the base frame of that moment (padded
\* to the next step's length), it keeps that start until the crossfade is over,
\* and every frame it hands to the gate is the mix of that start and the next
\* step's buffer at i / steps.
CrossfadeFromBaseAtStart ==
  [][ \A r \in Runners :
        /\ (loc[r].ctx = "run_xf" /\ pc[r] = "base_get" /\ pc'[r] # "base_get")
              => loc'[r].start = ensure_len(base, Len(loc[r].seq[loc[r].nxt + 1].frame))
        /\ (loc[r].ctx = "run_xf" /\ loc'[r].ctx = "run_xf" /\ pc[r] # "base_get")
              => loc'[r].start = loc[r].start
        /\ (loc'[r].ctx = "run_xf" /\ pc'[r] \in {"lock"} \cup SendPcs)
              => /\ loc'[r].i \in 1 .. loc'[r].steps
                 /\ loc'[r].buf = Mix(loc'[r].start, loc'[r].seq[loc'[r].nxt + 1].frame,
                                      loc'[r].i, loc'[r].steps) ]_vars

\* a runner hands the sink a crossfade frame mixed from a blacked-out base,
\* although the step it leaves is not dark
CrossfadeFromReplacedBase ==
  \E r \in Runners :
     /\ loc[r].ctx = "run_xf" /\ pc[r] = "send_sink"
     /\ loc[r].start = Zeros(Len(loc[r].start))
     /\ loc[r].seq[loc[r].idx + 1].frame # loc[r].start
     /\ loc[r].buf = Mix(loc[r].start, loc[r].target, loc[r].i, loc[r].steps)
     /\ loc[r].buf # Mix(loc[r].seq[loc[r].idx + 1].frame, loc[r].target, loc[r].i, loc[r].steps)

\* C26: a fade emits no frame after a delay in which a stop was requested:
\* neither a foreground fade of trigger or test-play in whose delay another
\* thread has called stop_animation, nor a crossfade of a runner in whose delay
\* the cancellation flag was set.
StoppedFadeEmitsNoMore ==
  [][ \A t \in Threads :
        loc[t].asked =>
           /\ ~(loc[t].ctx \in FadeCtxs /\ pc[t] = "send_ret" /\ pc'[t] = "send_base")
           /\ ~(loc[t].ctx = "run_xf" /\ pc[t] = "xf_check" /\ pc'[t] = "lock") ]_vars

\* a send_dmx call is between its first and its last statement
SendInProgress ==
  \E t \in Threads : pc[t] \in SendPcs \ {"send_ret"}

\* C27: when a send of buffer b has completed, the base frame is b and the
\* current frame is b dimmed at the level that send read; and whenever no send
\* is in progress the current frame has the length of the base frame and is
\* the base frame dimmed at some level (before the first send both are unset).
CurrentIsDimmedBase ==
  /\ \A t \in Threads :
        pc[t] = "send_ret" =>
           /\ base = loc[t].buf
           /\ cur = ApplyGlobalDimmer(loc[t].buf, Rig, loc[t].pct)
  /\ ~SendInProgress =>
        \/ base = NoFrame /\ cur = NoFrame
        \/ /\ base # NoFrame /\ cur # NoFrame
           /\ Len(cur) = Len(base)
           /\ \E p \in 0 .. 100 : cur = ApplyGlobalDimmer(base, Rig, p)

\* positions inside stop_animation
StopPcs == { "stop_check", "stop_set", "stop_join", "stop_wait", "stop_clear", "stop_unset" }

\* the thread has begun and has not ended
Live(t) == pc[t] \notin { "new", "unborn", "created", "done", "failed", "dead" }

\* the thread this thread waits for: the holder of the lock it is about to
\* take, or the thread it joins while that thread is about to end; None when
\* it can go on by itself
WaitsFor(t) ==
  IF pc[t] = "lock" /\ sendLock # Free THEN sendLock
  ELSE IF pc[t] \in {"base_get", "send_base", "send_cur"} /\ frameLock # Free THEN frameLock
  ELSE IF pc[t] \in {"send_dim", "dim_get", "dim_set"} /\ dimLock # Free THEN dimLock
  ELSE IF pc[t] = "stop_wait" /\ pc[loc[t].joined] # "dead" /\ ~CannotEndSoon(loc[t].joined)
       THEN loc[t].joined
  ELSE None

\* following the threads waited for, from t, ends within n steps at a live
\* thread that waits for nothing
RECURSIVE CanProceed(_, _)
CanProceed(t, n) ==
  /\ Live(t)
  /\ \/ WaitsFor(t) = None
     \/ n > 0 /\ CanProceed(WaitsFor(t), n - 1)

\* no thread is blocked for good, and the locks are taken in one order
NoThreadStuck ==
  /\ \A t \in Threads : Live(t) => CanProceed(t, Cardinality(Threads))
  /\ \A t \in Threads :
        /\ (frameLock = t \/ dimLock = t) => WaitsFor(t) = None
        /\ ~(frameLock = t /\ dimLock = t)
  /\ \A t \in Threads : pc[t] \in {"done", "failed", "dead"} => sendLock # t

\* C28: the system is deadlock-free: every live thread can go on or waits for
\* a thread that can; a thread holding FRAME_LOCK or GLOBAL_DIMMER_LOCK waits
\* for no lock; SEND_LOCK is not held by a thread that has ended; and every
\* call of stop_animation returns to its caller.
DeadlockFree ==
  /\ [] NoThreadStuck
  /\ [][ \A t \in Threads :
           pc[t] \in StopPcs => pc'[t] \in StopPcs \cup {"after_stop"} ]_vars

\* C29: whenever no stop_animation call is in progress, every runner thread
\* that is alive is the thread ANIM_THREAD refers to.
HandleRefersToLiveRunner ==
  (\A t \in Threads : pc[t] \notin StopPcs) =>
     \A r \in Runners : IsAlive(r) => animThread = r

\* C30: the timed stop of a test-play leaves a sequence started by a trigger
\* request alone: when a stopper thread sets the cancellation flag, ANIM_THREAD
\* does not refer to the runner of a trigger request and no such runner is
\* alive to see the flag.
StopperSparesTriggeredRunner ==
  [][ \A s \in Stoppers :
        (pc[s] = "stop_set" /\ pc'[s] = "stop_join") =>
           \A r \in Runners :
              req[r[2]].kind = "trigger" => (animThread # r /\ ~IsAlive(r)) ]_vars

\* the level after the steps d1 and d2 are applied one after the other from L
SteppedTwice(L, d1, d2) == ClampPercent(ClampPercent(L + d1) + d2)

\* C31: dimmer steps are atomic: when the only two requests of a lifetime that
\* starts without dimmer file are step requests and both have ended, the level
\* is the one reached by applying the two deltas one after the other, in one
\* of the two orders, from the level the lifetime started with.
StepsAreAtomic ==
  ( /\ nreq = 2 /\ Quiescent
    /\ req[1].kind = "dim_step" /\ req[2].kind = "dim_step" )
     => dimmer \in { SteppedTwice(LoadDimmer(NoFile), req[1].arg, req[2].arg),
                     SteppedTwice(LoadDimmer(NoFile), req[2].arg, req[1].arg) }

\* request k is a dimmer set or a dimmer step
IsDimmerRequest(k) == req[k].kind \in { "dim_set", "dim_step" }

\* C32: when a dimmer set or step has been served, every request has ended, no
\* runner is left and no sink call has failed, the current frame is the base
\* frame dimmed at the level now in memory.
CurrentReflectsLevel ==
  ( /\ Quiescent /\ NoRunner /\ aborted = {}
    /\ \E k \in 1 .. nreq : IsDimmerRequest(k) )
     => /\ base # NoFrame
        /\ cur = ApplyGlobalDimmer(base, Rig, dimmer)

\* C32 witness: after a trigger and a dimmer set to 50 the red base frame is
\* transmitted at half its value
RedAtHalfLevel ==
  /\ nreq = 2 /\ Quiescent /\ NoRunner /\ aborted = {}
  /\ req[1].kind = "trigger" /\ req[2].kind = "dim_set"
  /\ dimmer = 50
  /\ base = <<255, 0, 0, 0>>
  /\ cur = <<128, 0, 0, 0>>

\* every value of the frame is a byte
IsByteFrame(f) == \A c \in 1 .. Len(f) : f[c] \in 0 .. 255

\* the frame the fade under evaluation has emitted last
LastEmitted == result[Len(result)].frame

\* C33: when the start and the target of a fade hold only bytes, every frame
\* the fade emits lies channel by channel between start and target, and the
\* global dimmer applied to it at any level 0..100, on rigs with and without a
\* DIM channel, yields only bytes.
BytesStayBytes ==
  ( /\ args.fn = "fade" /\ Len(result) > 0
    /\ IsByteFrame(args.start) /\ IsByteFrame(args.target) )
     => /\ Len(LastEmitted) = Len(args.target)
        /\ \A c \in 1 .. Len(LastEmitted) :
              /\ LastEmitted[c] >= Min(args.start[c], args.target[c])
              /\ LastEmitted[c] <= Max(args.start[c], args.target[c])
        /\ \A f \in {Rig, RigRGB, RigDim, RigTwo}, p \in 0 .. 100 :
              LET to_send == ApplyGlobalDimmer(LastEmitted, f, p)
              IN Len(to_send) = Len(LastEmitted) /\ IsByteFrame(to_send)

\* C33 witness: the 13th of 33 frames of a fade from full white, every channel
\* strictly between start and target, and its half-level copy differs from it
FadeFrameStrictlyBetween ==
  /\ args.fn = "fade" /\ args.steps = 33 /\ Len(result) = 13
  /\ args.start = <<255, 255, 255, 255>> /\ args.target = <<90, 171, 3, 200>>
  /\ \A c \in 1 .. 4 : LastEmitted[c] > args.target[c] /\ LastEmitted[c] < args.start[c]
  /\ ApplyGlobalDimmer(LastEmitted, Rig, 50) # LastEmitted
  /\ IsByteFrame(ApplyGlobalDimmer(LastEmitted, Rig, 50))

====
